---- MODULE Spec2Model ----
(***************************************************************************)
(* Model of the stochastic-search bookkeeping of BaseSampler               *)
(* (src/__init__.py): better_sample, no_improvement and the state they     *)
(* keep (best_sample, best_diff, no_improv, logprob_model, loglik_data);   *)
(* of set_temperature (specification SpecAnneal) and of the module-level   *)
(* function sample (specification SpecSample).                             *)
(*                                                                         *)
(* Python objects are modelled by a heap of references: the caller owns    *)
(* the working samples, the tracker owns the object copy.deepcopy makes.   *)
(* Scores are Python numbers; they are modelled by small integers (the     *)
(* code only adds, subtracts and compares them).                           *)
(***************************************************************************)
EXTENDS Integers, Sequences, FiniteSets

\* ---------------------------------------------------------------- bounds
\* scores returned by _logprob range over -MaxScore..0 (log-probabilities)
MaxScore == 2
\* search_tolerance is drawn from 0..MaxTol at construction
MaxTol == 1
\* no_improv is not incremented beyond MaxTol + NoImprovSlack
NoImprovSlack == 2
\* sample_size is drawn from 0..MaxSampleSize at construction
MaxSampleSize == 10
\* set_temperature is called with an iteration in 0..MaxIteration
MaxIteration == 10
\* sample is called with sequences of at most MaxLen elements
MaxLen == 4
\* and with integer weights in 0..MaxWeight
MaxWeight == 2
\* binary floating point is modelled with MantissaBits significant bits
\* (doubles have 53), rounding to nearest, ties to even
MantissaBits == 3

Scores == {x - MaxScore : x \in 0..MaxScore}
\* a sample is opaque to the tracker: what matters is whether its content
\* is still the one it had, so two contents are told apart
Contents == {"c0", "c1"}
\* the working sample object of the search loop
WorkRefs == {"working"}
\* the object created by copy.deepcopy (the previous copy is unreachable
\* once best_sample is reassigned, so one reference stands for it)
CopyRef == "copy"
Refs == WorkRefs \cup {CopyRef}
MaxNoImprov == MaxTol + NoImprovSlack

\* Python's None and a present value, kept comparable with each other
None == <<>>
Some(v) == <<v>>
Val(o) == o[1]

VARIABLES
    heap,                  \* content of every sample object
    best_sample,           \* self.best_sample: (sample, logprob_model, loglik_data)
    logprob_model,         \* self.logprob_model
    loglik_data,           \* self.loglik_data
    best_diff,             \* self.best_diff
    no_improv,             \* self.no_improv
    search_tolerance,      \* self.search_tolerance
    search_data_fit_only,  \* self.search_data_fit_only
    op,                    \* the method that ran last
    ret,                   \* what that method returned
    call,                  \* history: arguments and pre-state of the last better_sample
    stored,                \* history: content of the best sample when it was stored
    streak,                \* history: non-improving calls since initialization / last improvement
    trueReturns,           \* history: number of better_sample calls that returned True
    anneal,                \* self.annealing, self.sample_size, self.annealing_temp
    smp                    \* one call of sample(a, p): its inputs, its draw and its outcome

vars == <<heap, best_sample, logprob_model, loglik_data, best_diff, no_improv,
          search_tolerance, search_data_fit_only, op, ret, call, stored,
          streak, trueReturns, anneal, smp>>

\* the state of the parts that the search bookkeeping does not touch
aux == <<anneal, smp>>
search == <<heap, best_sample, logprob_model, loglik_data, best_diff, no_improv,
            search_tolerance, search_data_fit_only, op, ret, call, stored,
            streak, trueReturns>>

config == <<search_tolerance, search_data_fit_only>>
tracker == <<best_sample, logprob_model, loglik_data, best_diff, no_improv>>

NoCall == [lp |-> None, ll |-> None, old_lp |-> None, old_ll |-> None]

\* ------------------------------------------------------------ __init__
\* lines 79 and 96-97 with the constructor's defaults (annealing = False,
\* sample_size = 1000); temperatures are counted in tenths
AnnealDefault == [annealing |-> "False", sample_size |-> 1000,
                  annealing_temp |-> 10, arg |-> None]
\* no call of sample is in progress
NoOutcome == [kind |-> "none", exc |-> "", i |-> 0]
SampleIdle == [a |-> 0, p |-> <<>>, r |-> 0, pc |-> "idle", out |-> NoOutcome]

\* lines 88-93
SearchInit ==
    /\ heap = [r \in Refs |-> "c0"]
    /\ best_sample = [s |-> None, lp |-> None, ll |-> None]
    /\ logprob_model = None
    /\ loglik_data = None
    /\ best_diff = <<>>
    /\ no_improv = 0
    /\ search_tolerance \in 0..MaxTol
    /\ search_data_fit_only \in BOOLEAN
    /\ op = "__init__"
    /\ ret = "None"
    /\ call = NoCall
    /\ stored = None
    /\ streak = 0
    /\ trueReturns = 0

Init ==
    /\ SearchInit
    /\ anneal = AnnealDefault
    /\ smp = SampleIdle

\* -------------------------------------------------------- better_sample
\* line 164: if self.best_sample[0] is None
NoBestRecorded(best) == best.s = None

\* mutant: the initial store leaves the data log-likelihood unset
InitialStore_NoLoglik(sample, lp, ll) == [s |-> Some(sample), lp |-> Some(lp), ll |-> None]

\* line 165: the initial store keeps the caller's own object
InitialStore(sample, lp, ll) == [s |-> Some(sample), lp |-> Some(lp), ll |-> Some(ll)]

\* line 179: an accepted sample is stored as a deep copy
AcceptedStore(lp, ll) == [s |-> Some(CopyRef), lp |-> Some(lp), ll |-> Some(ll)]

\* copy.deepcopy(sample): a new object with the content of the argument
DeepCopy(h, sample) == [h EXCEPT ![CopyRef] = h[sample]]

\* mutant: the joint score is compared whatever the mode
better_AlwaysJoint(fit_only, new_logprob_model, new_loglik_data, best) ==
    new_logprob_model + new_loglik_data - (Val(best.lp) + Val(best.ll))

\* mutant: the operands of the difference are swapped
better_Swapped(fit_only, new_logprob_model, new_loglik_data, best) ==
    IF fit_only
    THEN Val(best.ll) - new_loglik_data
    ELSE (Val(best.lp) + Val(best.ll)) - (new_logprob_model + new_loglik_data)

\* lines 171-174
better(fit_only, new_logprob_model, new_loglik_data, best) ==
    IF fit_only
    THEN new_loglik_data - Val(best.ll)
    ELSE new_logprob_model + new_loglik_data - (Val(best.lp) + Val(best.ll))

\* mutant: a tie counts as an improvement
IsImprovement_OrEqual(d) == d >= 0

\* line 175
IsImprovement(d) == d > 0

\* line 168: a bare return
InitialReturn == "None"

\* mutant: the counter is not reset by an improvement
NoImprovAfter_NoReset(d, n) == IF IsImprovement(d) THEN n ELSE n + 1

\* lines 176 and 183
NoImprovAfter(d, n) == IF IsImprovement(d) THEN 0 ELSE n + 1

\* mutant: the difference is recorded whether or not it is an improvement
BestDiffAfter_Always(d, diff) == Append(diff, d)

\* line 177
BestDiffAfter(d, diff) == IF IsImprovement(d) THEN Append(diff, d) ELSE diff

\* the objective the claims speak of, stated without the code's helpers
Objective(fit_only, lp, ll) == IF fit_only THEN ll ELSE lp + ll

better_sample(sample, new_logprob_model, new_loglik_data) ==
    /\ op' = "better_sample"
    /\ call' = [lp |-> Some(new_logprob_model), ll |-> Some(new_loglik_data),
                old_lp |-> best_sample.lp, old_ll |-> best_sample.ll]
    /\ UNCHANGED <<config, aux>>
    /\ IF NoBestRecorded(best_sample)
       THEN /\ best_sample' = InitialStore(sample, new_logprob_model, new_loglik_data)
            /\ logprob_model' = Some(new_logprob_model)
            /\ loglik_data' = Some(new_loglik_data)
            /\ ret' = InitialReturn
            /\ stored' = Some(heap[sample])
            /\ UNCHANGED <<heap, best_diff, no_improv, streak, trueReturns>>
       ELSE LET d == better(search_data_fit_only, new_logprob_model,
                            new_loglik_data, best_sample)
            IN  /\ no_improv' = NoImprovAfter(d, no_improv)
                /\ no_improv' <= MaxNoImprov
                /\ best_diff' = BestDiffAfter(d, best_diff)
                /\ IF IsImprovement(d)
                   THEN /\ logprob_model' = Some(new_logprob_model)
                        /\ loglik_data' = Some(new_loglik_data)
                        /\ heap' = DeepCopy(heap, sample)
                        /\ best_sample' = AcceptedStore(new_logprob_model, new_loglik_data)
                        /\ ret' = "True"
                        /\ stored' = Some(heap[sample])
                        /\ trueReturns' = trueReturns + 1
                   ELSE /\ ret' = "False"
                        /\ UNCHANGED <<heap, best_sample, logprob_model,
                                       loglik_data, stored, trueReturns>>
                /\ streak' = IF Objective(search_data_fit_only, new_logprob_model, new_loglik_data)
                                > Objective(search_data_fit_only, Val(best_sample.lp), Val(best_sample.ll))
                             THEN 0 ELSE streak + 1

\* ------------------------------------------------------- no_improvement
\* mutant: the empty improvement history is not checked
no_improvement_result_NoEmptyCheck(diff, n, tolerance) ==
    IF n > tolerance THEN "True" ELSE "False"

\* mutant: the tolerance is compared with >=
no_improvement_result_AtTolerance(diff, n, tolerance) ==
    IF Len(diff) = 0 THEN "False"
    ELSE IF n >= tolerance THEN "True"
    ELSE "False"

\* lines 187-191
no_improvement_result(diff, n, tolerance) ==
    IF Len(diff) = 0 THEN "False"
    ELSE IF n > tolerance THEN "True"
    ELSE "False"

no_improvement ==
    /\ op' = "no_improvement"
    /\ ret' = no_improvement_result(best_diff, no_improv, search_tolerance)
    /\ UNCHANGED <<heap, tracker, config, call, stored, streak, trueReturns, aux>>

\* ------------------------------------------------------------ the caller
\* the search loop mutates a working sample in place between calls
Mutate(r, c) ==
    /\ heap[r] # c
    /\ heap' = [heap EXCEPT ![r] = c]
    /\ UNCHANGED <<tracker, config, op, ret, call, stored, streak, trueReturns, aux>>

Next ==
    \/ \E sample \in WorkRefs, lp \in Scores, ll \in Scores : better_sample(sample, lp, ll)
    \/ no_improvement
    \/ \E r \in WorkRefs, c \in Contents : Mutate(r, c)

Spec == Init /\ [][Next]_vars

\* ------------------------------------------- the base class's _logprob
\* line 197: return 0, 0
BaseLogprob == <<0, 0>>

\* a sampler whose class does not override _logprob
NextBase ==
    \/ \E sample \in WorkRefs : better_sample(sample, BaseLogprob[1], BaseLogprob[2])
    \/ no_improvement
    \/ \E r \in WorkRefs, c \in Contents : Mutate(r, c)

SpecBase == Init /\ [][NextBase]_vars

\* ------------------------------------------------------ set_temperature
\* values the caller may pass as the constructor's annealing argument
AnnealingArgs == {"False", "True", "0", "None"}
\* the arguments bool() takes as false
Falsy == {"False", "0", "None"}

\* mutant: the bands include their upper bound
temperature_Inclusive(annealing, sample_size, iteration) ==
    IF annealing = "False" THEN 10
    ELSE IF iteration * 10 <= sample_size * 2 THEN 2
    ELSE IF iteration * 10 <= sample_size * 3 THEN 4
    ELSE IF iteration * 10 <= sample_size * 4 THEN 6
    ELSE IF iteration * 10 <= sample_size * 5 THEN 8
    ELSE 10

\* lines 138-151, in tenths. `self.annealing is False` is an identity test:
\* only the object False passes it. With an integer iteration and an integer
\* sample_size, iteration < sample_size * 0.2 in double precision decides as
\* the exact comparison iteration * 10 < sample_size * 2 does (the product
\* is within half an ulp of the exact one), likewise for 0.3, 0.4 and 0.5.
temperature(annealing, sample_size, iteration) ==
    IF annealing = "False" THEN 10
    ELSE IF iteration * 10 < sample_size * 2 THEN 2
    ELSE IF iteration * 10 < sample_size * 3 THEN 4
    ELSE IF iteration * 10 < sample_size * 4 THEN 6
    ELSE IF iteration * 10 < sample_size * 5 THEN 8
    ELSE 10

set_temperature(iteration) ==
    /\ anneal' = [anneal EXCEPT
                    !.annealing_temp = temperature(anneal.annealing, anneal.sample_size, iteration),
                    !.arg = Some(iteration)]
    /\ UNCHANGED <<search, smp>>

\* lines 79, 96-97: the constructor keeps the arguments it is given
InitAnneal ==
    /\ SearchInit
    /\ smp = SampleIdle
    /\ \E a \in AnnealingArgs, n \in 0..MaxSampleSize :
          anneal = [annealing |-> a, sample_size |-> n, annealing_temp |-> 10, arg |-> None]

NextAnneal == \E iteration \in 0..MaxIteration : set_temperature(iteration)

SpecAnneal == InitAnneal /\ [][NextAnneal]_vars

\* --------------------------------------------------------------- sample
\* Floating-point numbers: NaN, or the non-negative rational n / d. Every
\* operation rounds its exact result to MantissaBits significant bits.
RECURSIVE Pow2(_)
Pow2(k) == IF k = 0 THEN 1 ELSE 2 * Pow2(k - 1)

NaN == [nan |-> TRUE, n |-> 0, d |-> 1]
Zero == [nan |-> FALSE, n |-> 0, d |-> 1]

\* the least k >= 0 that brings n / d * 2^k up to MantissaBits bits
RECURSIVE ScaleExp(_, _, _)
ScaleExp(n, d, k) ==
    IF n * Pow2(k) >= Pow2(MantissaBits - 1) * d THEN k ELSE ScaleExp(n, d, k + 1)

\* n / d (below 2^MantissaBits) rounded to nearest, ties to even
Round(n, d) ==
    IF n = 0 THEN Zero
    ELSE LET k == ScaleExp(n, d, 0)
             m == n * Pow2(k)
             q == m \div d
             rm == m % d
             up == 2 * rm > d \/ (2 * rm = d /\ q % 2 = 1)
         IN  [nan |-> FALSE, n |-> (IF up THEN q + 1 ELSE q), d |-> Pow2(k)]

\* line 28, one element: numpy's true division; 0 / 0 is nan (a warning,
\* not an exception)
FDiv(w, total) == IF total = 0 THEN NaN ELSE Round(w, total)

\* line 33: total += p[i]
FAdd(x, y) ==
    IF x.nan \/ y.nan THEN NaN ELSE Round(x.n * y.d + y.n * x.d, x.d * y.d)

\* the draw of random.random(): r / 2^MantissaBits with 0 <= r < 2^MantissaBits
Draws == 0..(Pow2(MantissaBits) - 1)

\* line 34: total > r; a comparison with nan is False
FGreater(x, r) == ~x.nan /\ x.n * Pow2(MantissaBits) > r * x.d

\* mutant: the accumulated weight is compared with >=
FGreater_OrEqual(x, r) == ~x.nan /\ x.n * Pow2(MantissaBits) >= r * x.d

\* line 34
Exceeds(total, r) == FGreater(total, r)

\* p.sum() at line 28: the weights are integers, their sum is exact
RECURSIVE SumTo(_, _)
SumTo(w, i) == IF i = 0 THEN 0 ELSE SumTo(w, i - 1) + w[i]

\* line 28: p = p / p.sum()
Normalized(w) == [i \in 1..Len(w) |-> FDiv(w[i], SumTo(w, Len(w)))]

Raise(exc) == [kind |-> "raise", exc |-> exc, i |-> 0]
\* a[i]; positions are counted from 1
Return(i) == [kind |-> "return", exc |-> "", i |-> i]

\* lines 32-36: the loop from position i on, then the return after the
\* loop; with n = 0 the loop variable was never bound
RECURSIVE Loop(_, _, _, _)
Loop(p, r, i, total) ==
    IF i > Len(p)
    THEN IF Len(p) = 0 THEN Raise("UnboundLocalError") ELSE Return(Len(p))
    ELSE LET t == FAdd(total, p[i])
         IN  IF Exceeds(t, r) THEN Return(i) ELSE Loop(p, r, i + 1, t)

\* mutant: the lengths are not compared
sample_NoLengthCheck(a, w, r) == Loop(Normalized(w), r, 1, Zero)

\* lines 22-36; a is the length of the outcome sequence
sample(a, w, r) ==
    IF a # Len(w) THEN Raise("Exception")
    ELSE Loop(Normalized(w), r, 1, Zero)

sample_call ==
    /\ smp.pc = "called"
    /\ smp' = [smp EXCEPT !.pc = "done", !.out = sample(smp.a, smp.p, smp.r)]
    /\ UNCHANGED <<search, anneal>>

Weights == UNION {[1..n -> 0..MaxWeight] : n \in 0..MaxLen}

\* a call sample(a, p) with any outcomes, weights and draw; sample is a
\* module-level function, the sampler object is left as constructed with
\* its defaults
InitSample ==
    /\ SearchInit
    /\ search_tolerance = 0
    /\ search_data_fit_only = FALSE
    /\ anneal = AnnealDefault
    /\ \E a \in 0..MaxLen, w \in Weights, r \in Draws :
          smp = [a |-> a, p |-> w, r |-> r, pc |-> "called", out |-> NoOutcome]

NextSample == sample_call

SpecSample == InitSample /\ [][NextSample]_vars

\* ---------------------------------------------------------------- claims
\* the state right after a better_sample call (the caller may have mutated
\* its sample since, which leaves op, ret and call alone)
AfterUpdate == op = "better_sample"
AfterFirstUpdate == AfterUpdate /\ call.old_lp = None
AfterLaterUpdate == AfterUpdate /\ call.old_lp # None
AfterShouldStop == op = "no_improvement"
NewJoint == Val(call.lp) + Val(call.ll)
OldJoint == Val(call.old_lp) + Val(call.old_ll)

\* C1: on a tracker with no best sample recorded, the first better_sample
\* call returns the boolean False and leaves the record holding that sample
\* and the score _logprob gave it.
C1_FirstUpdateReturnsFalse ==
    AfterFirstUpdate =>
        /\ ret = "False"
        /\ best_sample.s # None
        /\ best_sample.lp = call.lp
        /\ best_sample.ll = call.ll

\* C2: whenever better_sample stores a sample as the best, the stored sample
\* is a copy: whatever the caller does to its working sample afterwards, the
\* sample in the record still has the content it had when it was stored.
C2_StoredBestNotAliased ==
    best_sample.s # None => heap[Val(best_sample.s)] = Val(stored)

C4_CounterTracksStreak ==
    /\ no_improv = streak
    /\ AfterFirstUpdate => no_improv = 0

C4_Witness ==
    /\ AfterLaterUpdate
    /\ trueReturns = 1
    /\ streak = 2
    /\ no_improv = 2

\* C5: no_improvement returns False whenever best_diff is empty, whatever
\* the counter and the tolerance are.
C5_NoStopBeforeImprovement ==
    (AfterShouldStop /\ Len(best_diff) = 0) => ret = "False"

C5_Witness ==
    /\ AfterShouldStop
    /\ Len(best_diff) = 0
    /\ no_improv > search_tolerance + 1

\* C6: with a non-empty best_diff, no_improvement returns True exactly when
\* no_improv > search_tolerance, and the call changes no tracker state.
C6_StopAboveTolerance ==
    /\ [](AfterShouldStop /\ Len(best_diff) > 0 =>
            ret = (IF no_improv > search_tolerance THEN "True" ELSE "False"))
    /\ [][op' = "no_improvement" => UNCHANGED <<tracker, config>>]_vars

C6_Witness ==
    /\ AfterShouldStop
    /\ Len(best_diff) > 0
    /\ no_improv = search_tolerance + 1
    /\ ret = "True"

C8_HistoryAppendOnlyPositive ==
    /\ [](/\ \A i \in 1..Len(best_diff) : best_diff[i] > 0
          /\ Len(best_diff) = trueReturns)
    /\ [][\/ best_diff' = best_diff
          \/ /\ Len(best_diff') = Len(best_diff) + 1
             /\ SubSeq(best_diff', 1, Len(best_diff)) = best_diff]_vars

C8_Witness ==
    /\ Len(best_diff) = 2
    /\ no_improv > 0

\* C9: the objective of the stored best (joint sum, or loglik_data in
\* likelihood-only mode) never decreases, and strictly increases on every
\* call that returns True.
StoredObjective(best) == Objective(search_data_fit_only, Val(best.lp), Val(best.ll))

C9_BestObjectiveMonotone ==
    [][best_sample.s # None =>
        /\ StoredObjective(best_sample') >= StoredObjective(best_sample)
        /\ trueReturns' # trueReturns =>
              StoredObjective(best_sample') > StoredObjective(best_sample)]_vars

C9_Witness ==
    /\ AfterLaterUpdate
    /\ ret = "True"
    /\ trueReturns = 2

\* C10: in likelihood-only mode, a call on an initialized record is accepted
\* exactly when the new loglik_data is strictly greater than the stored one,
\* whatever the logprob_model values are, and the recorded difference is
\* new loglik_data - stored loglik_data.
C10_LikelihoodOnlyAcceptance ==
    (AfterLaterUpdate /\ search_data_fit_only) =>
        /\ ret = (IF Val(call.ll) > Val(call.old_ll) THEN "True" ELSE "False")
        /\ ret = "True" =>
              /\ best_diff # <<>>
              /\ best_diff[Len(best_diff)] = Val(call.ll) - Val(call.old_ll)
              /\ best_sample.ll = call.ll

C10_Witness ==
    /\ AfterLaterUpdate
    /\ search_data_fit_only
    /\ ret = "True"
    /\ NewJoint < OldJoint

\* the state right after a set_temperature call
AfterSetTemperature == anneal.arg # None

\* C11: with annealing disabled, set_temperature yields 1.0 for every
\* iteration and sample_size, also when it is disabled with a falsy value
\* that is not the object False (0, None).
C11_DisabledIsOne ==
    (AfterSetTemperature /\ anneal.annealing \in Falsy) => anneal.annealing_temp = 10

\* the band the claim gives an iteration, in tenths, from percentages
BandOf(sample_size, iteration) ==
    IF iteration * 100 < sample_size * 20 THEN 2
    ELSE IF iteration * 100 < sample_size * 30 THEN 4
    ELSE IF iteration * 100 < sample_size * 40 THEN 6
    ELSE IF iteration * 100 < sample_size * 50 THEN 8
    ELSE 10

\* C12: with annealing enabled the temperature is the step function of
\* iteration against sample_size with exclusive upper bounds (0.2 below 20%,
\* 0.4 below 30%, 0.6 below 40%, 0.8 below 50%, else 1.0); it depends on
\* (iteration, sample_size) alone and does not decrease when a later call
\* passes a larger iteration.
C12_StepFunction ==
    /\ []((AfterSetTemperature /\ anneal.annealing = "True") =>
            anneal.annealing_temp = BandOf(anneal.sample_size, Val(anneal.arg)))
    /\ [][(AfterSetTemperature /\ anneal.annealing = "True"
            /\ Val(anneal'.arg) >= Val(anneal.arg)) =>
              anneal'.annealing_temp >= anneal.annealing_temp]_vars

C12_Witness ==
    /\ AfterSetTemperature
    /\ anneal.annealing = "True"
    /\ anneal.sample_size = 10
    /\ anneal.arg = Some(3)
    /\ anneal.annealing_temp = 6

\* the state after sample has run
SampleDone == smp.pc = "done"
EqualLengths == smp.a = Len(smp.p)
SomeWeight == \E i \in 1..Len(smp.p) : smp.p[i] > 0

\* C13: sample(a, p) with len(a) # len(p) fails with an error and returns
\* no outcome, for every pair of unequal lengths.
C13_LengthMismatchRaises ==
    (SampleDone /\ ~EqualLengths) => smp.out.kind = "raise"

C13_Witness ==
    /\ SampleDone
    /\ smp.a = 2
    /\ Len(smp.p) = 3
    /\ SomeWeight
    /\ smp.out = Raise("Exception")

\* the normalized weights accumulated in input order up to position i, as
\* the loop accumulates them
RECURSIVE CumTo(_, _)
CumTo(p, i) == IF i = 0 THEN Zero ELSE FAdd(CumTo(p, i - 1), p[i])

\* the accumulated weight at position i strictly exceeds the draw
ExceedsAt(i) ==
    LET c == CumTo(Normalized(smp.p), i)
    IN  ~c.nan /\ c.n * Pow2(MantissaBits) > smp.r * c.d

IsFirstExceeding(i) == ExceedsAt(i) /\ \A j \in 1..(i - 1) : ~ExceedsAt(j)

\* C14 as claimed: for equal lengths and non-negative weights that are not
\* all zero, sample returns the first outcome whose cumulative normalized
\* weight strictly exceeds the draw, so never an outcome of weight 0.
C14_FirstExceeding ==
    (SampleDone /\ EqualLengths /\ SomeWeight) =>
        /\ smp.out.kind = "return"
        /\ IsFirstExceeding(smp.out.i)
        /\ smp.p[smp.out.i] > 0

\* C14 as amended: sample returns the first outcome whose accumulated
\* normalized weight strictly exceeds the draw and, when no accumulated sum
\* does, the last outcome; an outcome of weight 0 is returned only as that
\* last outcome; when a single weight is non-zero its outcome is returned.
C14_FirstExceedingOrLast ==
    (SampleDone /\ EqualLengths /\ SomeWeight) =>
        /\ smp.out.kind = "return"
        /\ smp.out.i \in 1..Len(smp.p)
        /\ IF \E i \in 1..Len(smp.p) : ExceedsAt(i)
           THEN IsFirstExceeding(smp.out.i) /\ smp.p[smp.out.i] > 0
           ELSE smp.out.i = Len(smp.p)
        /\ \A k \in 1..Len(smp.p) :
              (\A j \in 1..Len(smp.p) : (smp.p[j] > 0) = (j = k)) => smp.out.i = k

C14_Witness ==
    /\ SampleDone
    /\ EqualLengths
    /\ SomeWeight
    /\ smp.out = Return(Len(smp.p))
    /\ smp.p[Len(smp.p)] = 0

\* C15: sample called with an all-zero weight vector of the outcomes'
\* length fails with an error instead of returning an outcome.
C15_AllZeroWeightsRaise ==
    (SampleDone /\ EqualLengths /\ ~SomeWeight) => smp.out.kind = "raise"

\* C16 (under SpecBase, where _logprob is the base class's): better_sample
\* is reported as an error and records no best sample with the score (0, 0).
C16_UnconfiguredUpdateRejected ==
    /\ best_sample.s = None
    /\ AfterUpdate => ret = "NotConfigured"

\* C18: a non-improving call on an initialized record changes the counter
\* only: the stored sample and its content, the stored scores, the mirrored
\* logprob_model / loglik_data and best_diff stay as they were.
C18_NonImprovingFrame ==
    [][(best_sample.s # None /\ op' = "better_sample" /\ ret' = "False"
        /\ streak' = streak + 1) =>
          /\ no_improv' = no_improv + 1
          /\ UNCHANGED <<best_sample, logprob_model, loglik_data, best_diff>>
          /\ heap'[Val(best_sample.s)] = heap[Val(best_sample.s)]]_vars

C18_Witness ==
    /\ AfterLaterUpdate
    /\ ret = "False"
    /\ no_improv = 2
    /\ trueReturns = 1
    /\ NewJoint < OldJoint
    /\ best_sample.lp = call.old_lp
    /\ logprob_model = best_sample.lp
    /\ loglik_data = best_sample.ll

\* C19: once an improvement has been accepted, no_improvement returns True
\* exactly from the (search_tolerance + 1)-th consecutive non-improving
\* call on, and False again after the next accepted improvement.
C19_StopAfterToleranceExceeded ==
    (AfterShouldStop /\ trueReturns > 0) =>
        ret = (IF streak >= search_tolerance + 1 THEN "True" ELSE "False")

C19_Witness ==
    /\ AfterShouldStop
    /\ trueReturns = 2
    /\ streak = search_tolerance + 2
    /\ ret = "True"

====
